---- MODULE Spec2Model ----
(***************************************************************************)
(* Model of muskox's packed checkers Action (src/src/action.rs).           *)
(*                                                                         *)
(* A caller builds a vector of u8 position numbers, hands it to            *)
(* Action::new_from_vector, and then reads the packed word back through    *)
(* the accessors.  The u32 word is modelled exactly, as the set of its     *)
(* set bit indices (a subset of 0..31); u8 and i8 arithmetic keeps its     *)
(* width.  `x - 1` on a u8 that is 0 overflows: a build with overflow      *)
(* checks panics there, a build without them wraps to 255, and the model   *)
(* takes either outcome.                                                   *)
(***************************************************************************)
EXTENDS Integers, Sequences, FiniteSets

VARIABLES positions, result, query

vars == <<positions, result, query>>

----------------------------------------------------------------------------
(* Bounds of the explored inputs *)

\* longest vector the caller builds (one past the longest accepted length)
MaxLen == 10
\* vectors up to this length take every value of Values at every place
FreeLen == 2
\* largest ordinary position number tried (33 and more are out of range)
MaxPos == 34
\* largest ordinary leap index asked of jump_direction (the word has 8 slots)
MaxIndex == 9

----------------------------------------------------------------------------
(* Program constants *)

U8Max == 255
MaxSquare == 31
MinPositions == 2
MaxPositions == 9
SourceMask == 31
DestinationShift == 5
JumpLenShift == 10
JumpLenMask == 15
DirectionBase == 15
DirectionMask == 3

\* position numbers tried in short vectors: 0, the legal 1..32, some above, 255
Values == (0..MaxPos) \cup {U8Max}
\* position numbers of long vectors: 1-10 and 10-17 are leaps (+9, +7), 1-17 is not
LongVals == {1, 10, 17}
\* leap indices asked of jump_direction: the ordinary ones and the largest u8
Indexes == (0..MaxIndex) \cup {U8Max}

----------------------------------------------------------------------------
(* enum Direction, in declaration order: its discriminants are 0,1,2,3 *)

Direction == <<"UpLeft", "UpRight", "DownLeft", "DownRight">>

\* `direction as u32`
DirectionAsU32(d) == CHOOSE c \in 0..3 : Direction[c + 1] = d

\* mem::transmute(val as u8): the variant whose discriminant is val
Transmute(val) == Direction[val + 1]

----------------------------------------------------------------------------
(* u32 words as sets of set bit indices *)

\* a small non-negative number as a u32
AsU32(n) == {b \in 0..30 : (n \div (2 ^ b)) % 2 = 1}

RECURSIVE AsNat(_)
\* the number a word of few low bits stands for
AsNat(w) == IF w = {} THEN 0
            ELSE LET b == CHOOSE x \in w : TRUE IN (2 ^ b) + AsNat(w \ {b})

BitOr(a, b) == a \cup b
BitAnd(a, b) == a \cap b
Shl(w, n) == {b + n : b \in w} \cap (0..31)
Shr(w, n) == {b - n : b \in {x \in w : x >= n}}

\* `x as i8` of a u8
AsI8(x) == IF x > 127 THEN x - 256 ELSE x

RECURSIVE to_string(_)
\* u8::to_string: the decimal digits
to_string(n) ==
    LET digit == <<"0", "1", "2", "3", "4", "5", "6", "7", "8", "9">>
    IN IF n < 10 THEN <<digit[n + 1]>>
       ELSE Append(to_string(n \div 10), digit[(n % 10) + 1])

----------------------------------------------------------------------------
(* Result<Action, ParseActionError>, and the panic of an aborted call *)

NotCalled == [tag |-> "NotCalled", data |-> {}, position |-> <<>>, quantity |-> 0]
Ok(data) == [tag |-> "Ok", data |-> data, position |-> <<>>, quantity |-> 0]
PositionValueError(p) ==
    [tag |-> "PositionValueError", data |-> {}, position |-> p, quantity |-> 0]
MoveQuantityError(q) ==
    [tag |-> "MoveQuantityError", data |-> {}, position |-> <<>>, quantity |-> q]
Panic == [tag |-> "Panic", data |-> {}, position |-> <<>>, quantity |-> 0]

----------------------------------------------------------------------------
(* Accessors *)

source(w) == AsNat(BitAnd(w, AsU32(SourceMask)))

destination(w) == AsNat(BitAnd(Shr(w, DestinationShift), AsU32(SourceMask)))

jump_len(w) == AsNat(BitAnd(Shr(w, JumpLenShift), AsU32(JumpLenMask)))

\* variant: the bound test lets the index jump_len through
jump_direction_OffByOne(w, i) ==
    IF i > jump_len(w) THEN "None"
    ELSE Transmute(AsNat(BitAnd(Shr(w, i * 2 + DirectionBase), AsU32(DirectionMask))))

\* (i < jump_len <= 15 keeps the u8 `i * 2 + 15` below 256)
jump_direction(w, i) ==
    IF i >= jump_len(w) THEN "None"
    ELSE Transmute(AsNat(BitAnd(Shr(w, i * 2 + DirectionBase), AsU32(DirectionMask))))

action_type(w) == IF jump_len(w) = 0 THEN "Move" ELSE "Jump"

\* variant: the two row parities take each other's table
move_direction_ParitySwapped(w) ==
    IF action_type(w) = "Jump" THEN "None"
    ELSE LET diff == AsI8(destination(w)) - AsI8(source(w))
         IN IF (source(w) \div 4) % 2 = 1
            THEN CASE diff = -4 -> "UpLeft"
                   [] diff = -3 -> "UpRight"
                   [] diff = 4 -> "DownLeft"
                   [] diff = 5 -> "DownRight"
                   [] OTHER -> "None"
            ELSE CASE diff = -5 -> "UpLeft"
                   [] diff = -4 -> "UpRight"
                   [] diff = 3 -> "DownLeft"
                   [] diff = 4 -> "DownRight"
                   [] OTHER -> "None"

move_direction(w) ==
    IF action_type(w) = "Jump" THEN "None"
    ELSE LET diff == AsI8(destination(w)) - AsI8(source(w))
         IN IF (source(w) \div 4) % 2 = 0
            THEN CASE diff = -4 -> "UpLeft"
                   [] diff = -3 -> "UpRight"
                   [] diff = 4 -> "DownLeft"
                   [] diff = 5 -> "DownRight"
                   [] OTHER -> "None"
            ELSE CASE diff = -5 -> "UpLeft"
                   [] diff = -4 -> "UpRight"
                   [] diff = 3 -> "DownLeft"
                   [] diff = 4 -> "DownRight"
                   [] OTHER -> "None"

----------------------------------------------------------------------------
(* Action::new_from_vector *)

\* positions.iter().map(|x| x - 1): None when a checked subtraction overflows
MapMinusOne(input, overflow_checks) ==
    [k \in DOMAIN input |->
        IF input[k] = 0
        THEN IF overflow_checks THEN -1 ELSE U8Max
        ELSE input[k] - 1]

\* positions.iter().find(|&&x| x > 31): index of the first match, 0 when none
FindOutOfRange(pos) ==
    IF \E k \in DOMAIN pos : pos[k] > MaxSquare
    THEN CHOOSE k \in DOMAIN pos :
            /\ pos[k] > MaxSquare
            /\ \A j \in 1..(k - 1) : pos[j] <= MaxSquare
    ELSE 0

\* cmp::max(source, destination) - cmp::min(source, destination)
AbsDiff(a, b) == IF a > b THEN a - b ELSE b - a

\* variant: only the length decides, the delta of the ends is not looked at
HasJumps_LengthOnly(pos) == Len(pos) > 2

\* the condition of the `if` that records jumps
HasJumps(pos) ==
    LET abs_diff == AbsDiff(pos[1], pos[Len(pos)])
    IN Len(pos) > 2 \/ (abs_diff # 3 /\ abs_diff # 4 /\ abs_diff # 5)

\* variant: the arms of -7 and 7 are exchanged
LeapDirection_Swapped(diff) ==
    CASE diff = -9 -> "UpLeft"
      [] diff = -7 -> "DownLeft"
      [] diff = 7 -> "UpRight"
      [] diff = 9 -> "DownRight"
      [] OTHER -> "None"

\* the match on diff; "None" stands for the arm that returns the error
LeapDirection(diff) ==
    CASE diff = -9 -> "UpLeft"
      [] diff = -7 -> "UpRight"
      [] diff = 7 -> "DownLeft"
      [] diff = 9 -> "DownRight"
      [] OTHER -> "None"

\* variant: the slots start one bit too high
DirectionShift_OffByOne(i) == i * 2 + DirectionBase + 1

\* bit position of the direction slot of leap i
DirectionShift(i) == i * 2 + DirectionBase

\* variant: the failing arm reports the square the step lands on
LeapErrorPosition_Landing(pos, i) == pos[i + 2]

\* what the failing arm of the match reports for the step i -> i+1 (0-based)
LeapErrorPosition(pos, i) == pos[i + 1]

RECURSIVE EncodeLeaps(_, _, _)
\* for i in 0..(positions.len() - 1), from iteration i on with the word so far
EncodeLeaps(pos, i, data) ==
    IF i >= Len(pos) - 1 THEN Ok(data)
    ELSE LET diff == AsI8(pos[i + 2]) - AsI8(pos[i + 1])
             direction == LeapDirection(diff)
         IN IF direction = "None"
            THEN PositionValueError(to_string(LeapErrorPosition(pos, i)))
            ELSE EncodeLeaps(pos, i + 1,
                     BitOr(data, Shl(AsU32(DirectionAsU32(direction)), DirectionShift(i))))

\* variant: the upper limit counts leaps, not positions
BadQuantity_OneMore(n) == n < MinPositions \/ n > MaxPositions + 1

\* positions.len() < 2 || positions.len() > 9
BadQuantity(n) == n < MinPositions \/ n > MaxPositions

new_from_vector(input, overflow_checks) ==
    LET pos == MapMinusOne(input, overflow_checks)
    IN IF \E k \in DOMAIN pos : pos[k] < 0 THEN Panic
       ELSE IF FindOutOfRange(pos) # 0
       THEN PositionValueError(to_string(pos[FindOutOfRange(pos)]))
       ELSE IF BadQuantity(Len(pos)) THEN MoveQuantityError(Len(pos))
       ELSE LET src == pos[1]
                dst == pos[Len(pos)]
                data0 == BitOr(AsU32(src), Shl(AsU32(dst), DestinationShift))
            IN IF HasJumps(pos)
               THEN EncodeLeaps(pos, 0,
                        BitOr(data0, Shl(AsU32(Len(pos) - 1), JumpLenShift)))
               ELSE Ok(data0)

----------------------------------------------------------------------------
(* The caller *)

NoQuery == [op |-> "none", i |-> 0, num |-> 0, val |-> ""]

Init ==
    /\ positions = <<>>
    /\ result = NotCalled
    /\ query = NoQuery

\* the caller appends one more position number to the vector
Push(x) ==
    /\ result.tag = "NotCalled"
    /\ \/ Len(positions) < FreeLen /\ x \in Values
       \/ /\ Len(positions) < MaxLen
          /\ x \in LongVals
          /\ \A k \in DOMAIN positions : positions[k] \in LongVals
    /\ positions' = Append(positions, x)
    /\ UNCHANGED <<result, query>>

\* Action::new_from_vector(positions), under either overflow behaviour
NewFromVector ==
    /\ result.tag = "NotCalled"
    /\ \E overflow_checks \in BOOLEAN :
          result' = new_from_vector(positions, overflow_checks)
    /\ UNCHANGED <<positions, query>>

Source ==
    /\ result.tag = "Ok"
    /\ query' = [op |-> "source", i |-> 0, num |-> source(result.data), val |-> ""]
    /\ UNCHANGED <<positions, result>>

Destination ==
    /\ result.tag = "Ok"
    /\ query' = [op |-> "destination", i |-> 0,
                 num |-> destination(result.data), val |-> ""]
    /\ UNCHANGED <<positions, result>>

JumpLen ==
    /\ result.tag = "Ok"
    /\ query' = [op |-> "jump_len", i |-> 0, num |-> jump_len(result.data), val |-> ""]
    /\ UNCHANGED <<positions, result>>

JumpDirection(i) ==
    /\ result.tag = "Ok"
    /\ query' = [op |-> "jump_direction", i |-> i, num |-> 0,
                 val |-> jump_direction(result.data, i)]
    /\ UNCHANGED <<positions, result>>

ActionTypeOf ==
    /\ result.tag = "Ok"
    /\ query' = [op |-> "action_type", i |-> 0, num |-> 0,
                 val |-> action_type(result.data)]
    /\ UNCHANGED <<positions, result>>

MoveDirection ==
    /\ result.tag = "Ok"
    /\ query' = [op |-> "move_direction", i |-> 0, num |-> 0,
                 val |-> move_direction(result.data)]
    /\ UNCHANGED <<positions, result>>

Next ==
    \/ \E x \in Values : Push(x)
    \/ NewFromVector
    \/ Source
    \/ Destination
    \/ JumpLen
    \/ \E i \in Indexes : JumpDirection(i)
    \/ ActionTypeOf
    \/ MoveDirection

Spec == Init /\ [][Next]_vars

----------------------------------------------------------------------------
(* Vocabulary of the properties, stated on the caller's 1-based vector *)

Called == result.tag # "NotCalled"
Accepted == result.tag = "Ok"
InRange == \A k \in DOMAIN positions : positions[k] \in 1..32
NoZero == \A k \in DOMAIN positions : positions[k] # 0
Leaps == {-9, -7, 7, 9}
Directions == {"UpLeft", "UpRight", "DownLeft", "DownRight"}

\* delta of the step that leaves the i-th position (0-based i)
Delta(i) == positions[i + 2] - positions[i + 1]
Steps == 0..(Len(positions) - 2)
EndsDiff == positions[Len(positions)] - positions[1]
EndsAbs == IF EndsDiff < 0 THEN 0 - EndsDiff ELSE EndsDiff
MoveLike == Len(positions) = 2 /\ EndsAbs \in {3, 4, 5}

\* the direction a leap delta stands for
StepDirection(d) ==
    CASE d = -9 -> "UpLeft"
      [] d = -7 -> "UpRight"
      [] d = 7 -> "DownLeft"
      [] d = 9 -> "DownRight"

\* the leap delta a direction stands for
DirectionDelta(d) ==
    CASE d = "UpLeft" -> -9
      [] d = "UpRight" -> -7
      [] d = "DownLeft" -> 7
      [] d = "DownRight" -> 9

RECURSIVE Walk(_, _, _)
\* the 1-based vector rebuilt from a word: the walk so far, extended by the
\* leaps i, i+1, ... that the word records
Walk(w, i, walked) ==
    IF i >= jump_len(w) THEN walked
    ELSE Walk(w, i + 1,
              Append(walked, walked[Len(walked)] + DirectionDelta(jump_direction(w, i))))

\* the 1-based vector a word stands for, read through the accessors alone
Decode(w) ==
    IF action_type(w) = "Move" THEN <<source(w) + 1, destination(w) + 1>>
    ELSE Walk(w, 0, <<source(w) + 1>>)

\* the bits of a word that its fields use
UsedBits(w) ==
    (0..9) \cup (IF jump_len(w) = 0 THEN {}
                 ELSE (10..13) \cup (15..(14 + 2 * jump_len(w))))

----------------------------------------------------------------------------
(* C1 *)

\* C1: an accepted vector P reads back as source = P[0]-1 and destination =
\* P[last]-1, and when the Action is a Jump, jump_len = len(P)-1 and every
\* jump_direction(i), i in 0..len(P)-2, is the direction of the step delta
\* P[i+1]-P[i] under -9 UpLeft, -7 UpRight, +7 DownLeft, +9 DownRight, so
\* that walking from source along the decoded directions rebuilds P.
C1_RoundTrip ==
    Accepted =>
        /\ InRange /\ Len(positions) \in 2..9
        /\ source(result.data) = positions[1] - 1
        /\ destination(result.data) = positions[Len(positions)] - 1
        /\ query.op = "source" => query.num = positions[1] - 1
        /\ query.op = "destination" => query.num = positions[Len(positions)] - 1
        /\ action_type(result.data) = "Jump" =>
              /\ jump_len(result.data) = Len(positions) - 1
              /\ query.op = "jump_len" => query.num = Len(positions) - 1
              /\ \A i \in Steps :
                    /\ Delta(i) \in Leaps
                    /\ jump_direction(result.data, i) = StepDirection(Delta(i))
              /\ (query.op = "jump_direction" /\ query.i \in Steps) =>
                    query.val = StepDirection(Delta(query.i))
              /\ Walk(result.data, 0, <<source(result.data) + 1>>) = positions

\* the last leap of a 9-position capture has been read back, and it goes up
C1_Witness ==
    /\ Accepted
    /\ Len(positions) = 9
    /\ query.op = "jump_direction" /\ query.i = 7
    /\ query.val = "UpRight"
    /\ jump_direction(result.data, 0) = "DownLeft"

----------------------------------------------------------------------------
(* C2 *)

\* C2: an accepted vector is a Move (action_type = Move, jump_len = 0) iff it
\* has exactly 2 positions whose squares differ by 3, 4 or 5; every other
\* accepted vector is a Jump with jump_len = length - 1 >= 1; and action_type
\* is Jump exactly when jump_len is nonzero.
C2_Classification ==
    Accepted =>
        /\ (action_type(result.data) = "Move" /\ jump_len(result.data) = 0) <=> MoveLike
        /\ ~MoveLike =>
              /\ action_type(result.data) = "Jump"
              /\ jump_len(result.data) = Len(positions) - 1
              /\ jump_len(result.data) >= 1
        /\ (action_type(result.data) = "Jump") <=> (jump_len(result.data) # 0)
        /\ query.op = "action_type" => query.val = IF MoveLike THEN "Move" ELSE "Jump"
        /\ query.op = "jump_len" =>
              query.num = IF MoveLike THEN 0 ELSE Len(positions) - 1

\* a 2-position vector that is not a move has been classified as a Jump
C2_Witness ==
    /\ Accepted
    /\ Len(positions) = 2
    /\ EndsAbs = 7
    /\ query.op = "action_type" /\ query.val = "Jump"

\* a 2-position vector whose squares differ by 5 has been classified as a Move
C2_WitnessMove ==
    /\ Accepted
    /\ Len(positions) = 2
    /\ EndsAbs = 5
    /\ query.op = "action_type" /\ query.val = "Move"

----------------------------------------------------------------------------
(* C3 *)

\* C3: whatever u8 values the vector holds (0 included) and whatever its
\* length, new_from_vector returns an Action or one of the two errors; no
\* input makes it overflow or abort.
C3_NeverFaults ==
    Called => result.tag \in {"Ok", "PositionValueError", "MoveQuantityError"}

----------------------------------------------------------------------------
(* C4 *)

\* C4: on a constructed Action, for every index i in 0..255, jump_direction(i)
\* is no value when i >= jump_len and a direction when i < jump_len; on a
\* Move it is no value for every i.  (All 256 indices are tried on the Action
\* once its jump_len has been read; the index that was asked is tried after
\* each jump_direction call.)
C4_OutOfRangeIndex ==
    Accepted =>
        /\ query.op = "jump_len" =>
              \A i \in 0..U8Max :
                 IF i >= Len(positions) - 1 \/ MoveLike
                 THEN jump_direction(result.data, i) = "None"
                 ELSE jump_direction(result.data, i) \in Directions
        /\ query.op = "jump_len" => query.num = jump_len(result.data)
        /\ query.op = "jump_direction" =>
              /\ query.i >= Len(positions) - 1 => query.val = "None"
              /\ MoveLike => query.val = "None"
              /\ (~MoveLike /\ query.i < Len(positions) - 1) => query.val \in Directions

\* the index right after the last leap of a Jump has been asked
C4_Witness ==
    /\ Accepted
    /\ Len(positions) = 3
    /\ query.op = "jump_direction" /\ query.i = 2 /\ query.val = "None"

\* index 0 has been asked of a Move
C4_WitnessMove ==
    /\ Accepted
    /\ MoveLike
    /\ query.op = "jump_direction" /\ query.i = 0 /\ query.val = "None"

----------------------------------------------------------------------------
(* C5 *)

\* index of the first position of 33 or more, 0 when there is none
FirstAbove ==
    IF \E k \in DOMAIN positions : positions[k] >= 33
    THEN CHOOSE k \in DOMAIN positions :
            /\ positions[k] >= 33
            /\ \A j \in 1..(k - 1) : positions[j] < 33
    ELSE 0

\* C5: a vector whose positions are all in 1..32 is never rejected for range,
\* and every vector that holds a position of 33 or more, whatever its length,
\* is rejected with a position value error that reports value - 1 of the
\* first such position.
C5_RangeBoundary ==
    Called =>
        /\ InRange =>
              \/ result.tag \in {"Ok", "MoveQuantityError"}
              \/ /\ result.tag = "PositionValueError"
                 /\ \E k \in DOMAIN positions : result.position = to_string(positions[k] - 1)
        /\ FirstAbove # 0 =>
              /\ result.tag = "PositionValueError"
              /\ result.position = to_string(positions[FirstAbove] - 1)

\* the same, for the vectors that hold no 0
C5_RangeBoundaryNoZero == NoZero => C5_RangeBoundary

----------------------------------------------------------------------------
(* C6 *)

\* C6: a vector whose positions are all in 1..32 and whose length is outside
\* 2..9 is rejected with a move quantity error carrying the length, whatever
\* its deltas; vectors of length 2 and 9 that satisfy the adjacency rule are
\* accepted.
C6_LengthBoundary ==
    (Called /\ InRange) =>
        /\ Len(positions) \notin 2..9 =>
              /\ result.tag = "MoveQuantityError"
              /\ result.quantity = Len(positions)
        /\ (Len(positions) \in {2, 9} /\ (MoveLike \/ \A i \in Steps : Delta(i) \in Leaps))
              => Accepted

\* a 10-position vector of leaps only has been rejected for its length
C6_Witness ==
    /\ Len(positions) = 10
    /\ \A i \in Steps : Delta(i) \in Leaps
    /\ result.tag = "MoveQuantityError"
    /\ result.quantity = 10

\* a 9-position vector has been accepted
C6_WitnessNine ==
    /\ Len(positions) = 9
    /\ Accepted

----------------------------------------------------------------------------
(* C7 *)

\* the table: <<row parity of the source, destination - source, direction>>
MoveTable ==
    { <<0, -4, "UpLeft">>, <<0, -3, "UpRight">>, <<0, 4, "DownLeft">>, <<0, 5, "DownRight">>,
      <<1, -5, "UpLeft">>, <<1, -4, "UpRight">>, <<1, 3, "DownLeft">>, <<1, 4, "DownRight">> }

\* what the table gives for the vector's ends
TableDirection ==
    LET parity == ((positions[1] - 1) \div 4) % 2
    IN IF \E d \in Directions : <<parity, EndsDiff, d>> \in MoveTable
       THEN CHOOSE d \in Directions : <<parity, EndsDiff, d>> \in MoveTable
       ELSE "None"

\* C7: move_direction is no value on a Jump; on a Move, with diff =
\* destination - source and row = source / 4, it is UpLeft on -4, UpRight on
\* -3, DownLeft on +4, DownRight on +5 for an even row, UpLeft on -5, UpRight
\* on -4, DownLeft on +3, DownRight on +4 for an odd row, and no value for
\* any other diff.
C7_MoveDirectionTable ==
    Accepted =>
        /\ action_type(result.data) = "Jump" => move_direction(result.data) = "None"
        /\ action_type(result.data) = "Move" => move_direction(result.data) = TableDirection
        /\ query.op = "move_direction" =>
              query.val = IF MoveLike THEN TableDirection ELSE "None"

\* the direction of a move that leaves an odd row upwards has been read
C7_Witness ==
    /\ Accepted
    /\ positions = <<15, 11>>
    /\ query.op = "move_direction" /\ query.val = "UpRight"

----------------------------------------------------------------------------
(* C8 *)

\* C8: every Action that new_from_vector returns as a Move has one of the
\* four directions as its move_direction, never no value.
C8_MoveHasDirection ==
    (Accepted /\ action_type(result.data) = "Move") =>
        /\ move_direction(result.data) \in Directions
        /\ query.op = "move_direction" => query.val \in Directions

----------------------------------------------------------------------------
(* C9 *)

\* the first step whose delta is not a leap, -1 when every step is a leap
FirstBadStep ==
    IF \E i \in Steps : Delta(i) \notin Leaps
    THEN CHOOSE i \in Steps :
            /\ Delta(i) \notin Leaps
            /\ \A j \in 0..(i - 1) : Delta(j) \in Leaps
    ELSE -1

\* C9: for an in-range vector of length 2..9 that is not a Move, a step whose
\* delta is outside {-9,-7,+7,+9} makes new_from_vector return a position
\* value error that reports the 0-based square the first such step departs
\* from; with every delta in the set the vector is accepted.  So an accepted
\* 2-position vector has squares that differ by 3, 4, 5, 7 or 9.
C9_LeapRejection ==
    /\ (Called /\ InRange /\ Len(positions) \in 2..9 /\ ~MoveLike) =>
          IF FirstBadStep # -1
          THEN /\ result.tag = "PositionValueError"
               /\ result.position = to_string(positions[FirstBadStep + 1] - 1)
          ELSE Accepted
    /\ (Accepted /\ Len(positions) = 2) => EndsAbs \in {3, 4, 5, 7, 9}

\* a vector whose second and third steps are both no leaps has been rejected,
\* reporting the square the second step departs from
C9_Witness ==
    /\ Len(positions) = 4
    /\ positions[1] = 1 /\ positions[2] = 10
    /\ FirstBadStep = 1
    /\ Delta(2) \notin Leaps
    /\ result.tag = "PositionValueError"
    /\ result.position = <<"9">>

----------------------------------------------------------------------------
(* C10 *)

\* C10: the accessors rebuild every accepted vector from its word alone, so
\* two different accepted vectors never have the same word; and every bit of
\* the word outside the used fields is zero: bit 14, bit 31, every direction
\* slot at leap index >= jump_len, and on a Move every bit from bit 10 up.
C10_InjectiveCanonical ==
    Accepted =>
        /\ Decode(result.data) = positions
        /\ result.data \subseteq UsedBits(result.data)
        /\ 14 \notin result.data /\ 31 \notin result.data
        /\ action_type(result.data) = "Move" => result.data \subseteq 0..9

\* an 8-leap capture whose last slot holds the code 3 (bits 29 and 30)
C10_Witness ==
    /\ Accepted
    /\ Len(positions) = 9
    /\ {29, 30} \subseteq result.data
====
